---------------------------- MODULE Spec2Model ----------------------------
(***************************************************************************)
(* Model of the mcp-feedback-enhanced Tauri shell:                         *)
(*   src-tauri/src/main.rs  - the standalone entry point (fn main)         *)
(*   src-tauri/src/lib.rs   - the library: create_tauri_builder and the    *)
(*                            PyO3 module ext_mod (run_app)                *)
(* One process is modelled.  `entry` says through which entry point the    *)
(* process uses the code: "main" (the binary), "builder" (a host that      *)
(* runs the Builder returned by the public create_tauri_builder) or        *)
(* "ext_mod" (a scripting runtime calling ext_mod.run_app).                *)
(***************************************************************************)
EXTENDS Integers, Sequences, FiniteSets, TLC

VARIABLES
    entry,       \* which entry point this process uses
    env,         \* MCP_WEB_URL in the process environment: <<>> unset, <<s>> set
    mainWindow,  \* whether the host configuration creates a window labelled "main"
    phase,       \* bootstrap phase of the window host
    setupPc,     \* position inside the setup closure
    lockHeld,    \* the Mutex of APP_STATE is held
    APP_STATE,   \* static APP_STATE: Mutex<Option<AppHandle>>
    slotWrites,  \* number of assignments made to *APP_STATE (history)
    managed,     \* the AppState registered with .manage(): <<>> or <<record>>
    navigated,   \* sequence of URLs given to window.navigate
    lastCmd,     \* the most recent command of the Command Surface and its result
    runPc,       \* position of the thread that called run_app
    runArg,      \* the web_url argument of the current run_app call
    runBuilder,  \* _builder of run_app: <<>> or <<the AppState it manages>>
    worker,      \* state of the thread spawned by run_app
    spawned,     \* threads spawned by the current run_app call
    runResult,   \* PyResult<i32> of the last run_app call
    calls        \* number of run_app calls made so far

vars == <<entry, env, mainWindow, phase, setupPc, lockHeld, APP_STATE,
          slotWrites, managed, navigated, lastCmd, runPc, runArg, runBuilder,
          worker, spawned, runResult, calls>>

hostVars == <<phase, setupPc, lockHeld, APP_STATE, slotWrites, managed,
              navigated, lastCmd>>
bridgeVars == <<runPc, runArg, runBuilder, worker, spawned, runResult, calls>>
confVars == <<entry, env, mainWindow>>

---------------------------------------------------------------------------
(* Bounds *)
MaxUrlLen == 3
MaxArgLen == 2
MaxCalls == 2

(* Strings are sequences over a small alphabet: a letter, the scheme
   separator and a blank. *)
Chars == {"a", ":", " "}
StringsUpTo(len) == UNION {[1..n -> Chars] : n \in 0..len}

\* values of MCP_WEB_URL
EnvStrings == StringsUpTo(MaxUrlLen)

\* url / web_url arguments of set_web_url and run_app
ArgStrings == StringsUpTo(MaxArgLen)

---------------------------------------------------------------------------
(* web_url.parse::<Url>() -- main.rs:64.  Leading and trailing blanks are
   stripped; the input must then start with a scheme (letters) followed by
   ":"; the rest is kept as the opaque path.  There is no base URL, so an
   input without a scheme is an error. *)
RECURSIVE TrimLeft(_)
TrimLeft(s) == IF s # <<>> /\ Head(s) = " " THEN TrimLeft(Tail(s)) ELSE s

RECURSIVE TrimRight(_)
TrimRight(s) ==
    IF s # <<>> /\ s[Len(s)] = " " THEN TrimRight(SubSeq(s, 1, Len(s) - 1)) ELSE s

Trim(s) == TrimRight(TrimLeft(s))

IsAlpha(c) == c = "a"

HasScheme(t) ==
    \E i \in 2..Len(t) : t[i] = ":" /\ \A j \in 1..(i - 1) : IsAlpha(t[j])

ParseUrl(s) ==
    LET t == Trim(s)
    IN  IF HasScheme(t) THEN [ok |-> TRUE, url |-> t]
                        ELSE [ok |-> FALSE, url |-> <<>>]

---------------------------------------------------------------------------
\* Variant of AppStateDefault: a hand-written Default that starts in desktop mode.
AppStateDefault_DesktopOn == [web_url |-> <<>>, desktop_mode |-> TRUE]

(* #[derive(Default)] struct AppState *)
AppStateDefault == [web_url |-> <<>>, desktop_mode |-> FALSE]

None == "None"
Handle == "AppHandle"

NoCmd == [op |-> "none", prev |-> "none", sarg |-> <<>>, barg |-> FALSE,
          sret |-> <<>>, bret |-> FALSE]

NoResult == [kind |-> "none", code |-> 0]

NoWorker == [st |-> "none", code |-> 0]

Init ==
    /\ entry \in {"main", "builder", "ext_mod"}
    /\ env \in {<<>>} \cup {<<s>> : s \in EnvStrings}
    /\ mainWindow \in BOOLEAN
    /\ phase = "Uninitialized"
    /\ setupPc = "idle"
    /\ lockHeld = FALSE
    /\ APP_STATE = None
    /\ slotWrites = 0
    /\ managed = <<>>
    /\ navigated = <<>>
    /\ lastCmd = NoCmd
    /\ runPc = "idle"
    /\ runArg = <<>>
    /\ runBuilder = <<>>
    /\ worker = NoWorker
    /\ spawned = 0
    /\ runResult = NoResult
    /\ calls = 0

---------------------------------------------------------------------------
(* Bootstrap: building the host *)

\* main.rs:41-50 and 71-76: Builder::default().plugin(..).manage(AppState::default())
\* with the setup closure and the invoke handler attached.
Main_Build ==
    /\ entry = "main"
    /\ phase = "Uninitialized"
    /\ phase' = "Building"
    /\ managed' = <<AppStateDefault>>
    /\ UNCHANGED <<setupPc, lockHeld, APP_STATE, slotWrites, navigated, lastCmd>>
    /\ UNCHANGED bridgeVars /\ UNCHANGED confVars

\* lib.rs:21-47: create_tauri_builder(), called by the host that will run it.
Lib_Build ==
    /\ entry = "builder"
    /\ phase = "Uninitialized"
    /\ phase' = "Building"
    /\ managed' = <<AppStateDefault>>
    /\ UNCHANGED <<setupPc, lockHeld, APP_STATE, slotWrites, navigated, lastCmd>>
    /\ UNCHANGED bridgeVars /\ UNCHANGED confVars

\* .run(context): the host initialises and invokes the setup closure once.
HostRun ==
    /\ phase = "Building"
    /\ phase' = "Setup"
    /\ setupPc' = "start"
    /\ UNCHANGED <<lockHeld, APP_STATE, slotWrites, managed, navigated, lastCmd>>
    /\ UNCHANGED bridgeVars /\ UNCHANGED confVars

\* .run(context) returns Err before setup: .expect(..) panics.
HostInitFail ==
    /\ phase = "Building"
    /\ phase' = "Aborted"
    /\ UNCHANGED <<setupPc, lockHeld, APP_STATE, slotWrites, managed, navigated,
                   lastCmd>>
    /\ UNCHANGED bridgeVars /\ UNCHANGED confVars

---------------------------------------------------------------------------
(* The setup closure: main.rs:51-70, lib.rs:25-40 *)

\* let mut state = APP_STATE.lock().unwrap();
Setup_Lock ==
    /\ phase = "Setup"
    /\ setupPc = "start"
    /\ ~lockHeld
    /\ lockHeld' = TRUE
    /\ setupPc' = "locked"
    /\ UNCHANGED <<phase, APP_STATE, slotWrites, managed, navigated, lastCmd>>
    /\ UNCHANGED bridgeVars /\ UNCHANGED confVars

\* *state = Some(app.handle().clone());
Setup_Store ==
    /\ phase = "Setup"
    /\ setupPc = "locked"
    /\ APP_STATE' = Handle
    /\ slotWrites' = slotWrites + 1
    /\ setupPc' = "stored"
    /\ UNCHANGED <<phase, lockHeld, managed, navigated, lastCmd>>
    /\ UNCHANGED bridgeVars /\ UNCHANGED confVars

\* Variant of Setup_Unlock: the guard is not scoped by a block and stays alive
\* for the rest of the closure.
Setup_Unlock_GuardKept ==
    /\ phase = "Setup"
    /\ setupPc = "stored"
    /\ lockHeld' = lockHeld
    /\ setupPc' = "unlocked"
    /\ UNCHANGED <<phase, APP_STATE, slotWrites, managed, navigated, lastCmd>>
    /\ UNCHANGED bridgeVars /\ UNCHANGED confVars

\* end of the inner block: the MutexGuard is dropped.
Setup_Unlock ==
    /\ phase = "Setup"
    /\ setupPc = "stored"
    /\ lockHeld' = FALSE
    /\ setupPc' = "unlocked"
    /\ UNCHANGED <<phase, APP_STATE, slotWrites, managed, navigated, lastCmd>>
    /\ UNCHANGED bridgeVars /\ UNCHANGED confVars

\* Variant of Main_Setup_ReadEnv: std::env::var(..).unwrap_or_default(), an
\* unset variable is treated like a set one.
Main_Setup_ReadEnv_UnwrapOrDefault ==
    /\ entry = "main"
    /\ phase = "Setup"
    /\ setupPc = "unlocked"
    /\ setupPc' = "haveUrl"
    /\ UNCHANGED <<phase, lockHeld, APP_STATE, slotWrites, managed, navigated,
                   lastCmd>>
    /\ UNCHANGED bridgeVars /\ UNCHANGED confVars

\* main.rs:59  if let Ok(web_url) = std::env::var("MCP_WEB_URL")
Main_Setup_ReadEnv ==
    /\ entry = "main"
    /\ phase = "Setup"
    /\ setupPc = "unlocked"
    /\ setupPc' = IF env = <<>> THEN "finish" ELSE "haveUrl"
    /\ UNCHANGED <<phase, lockHeld, APP_STATE, slotWrites, managed, navigated,
                   lastCmd>>
    /\ UNCHANGED bridgeVars /\ UNCHANGED confVars

\* main.rs:63  if let Some(window) = app.get_webview_window("main")
Main_Setup_GetWindow ==
    /\ entry = "main"
    /\ phase = "Setup"
    /\ setupPc = "haveUrl"
    /\ setupPc' = IF mainWindow THEN "window" ELSE "finish"
    /\ UNCHANGED <<phase, lockHeld, APP_STATE, slotWrites, managed, navigated,
                   lastCmd>>
    /\ UNCHANGED bridgeVars /\ UNCHANGED confVars

\* main.rs:64  let _ = window.navigate(web_url.parse().unwrap());
\* unwrap() panics inside the setup closure when the value does not parse.
Main_Setup_Navigate ==
    /\ entry = "main"
    /\ phase = "Setup"
    /\ setupPc = "window"
    /\ LET r == ParseUrl(env[1])
       IN  IF r.ok
           THEN /\ navigated' = Append(navigated, r.url)
                /\ setupPc' = "finish"
                /\ phase' = phase
           ELSE /\ navigated' = navigated
                /\ setupPc' = "panicked"
                /\ phase' = "Aborted"
    /\ UNCHANGED <<lockHeld, APP_STATE, slotWrites, managed, lastCmd>>
    /\ UNCHANGED bridgeVars /\ UNCHANGED confVars

\* lib.rs:33-36  let _app_state = app.state::<AppState>(); { }
Lib_Setup_State ==
    /\ entry = "builder"
    /\ phase = "Setup"
    /\ setupPc = "unlocked"
    /\ setupPc' = "finish"
    /\ UNCHANGED <<phase, lockHeld, APP_STATE, slotWrites, managed, navigated,
                   lastCmd>>
    /\ UNCHANGED bridgeVars /\ UNCHANGED confVars

\* println!(..); Ok(())
Setup_Ok ==
    /\ phase = "Setup"
    /\ setupPc = "finish"
    /\ setupPc' = "done"
    /\ UNCHANGED <<phase, lockHeld, APP_STATE, slotWrites, managed, navigated,
                   lastCmd>>
    /\ UNCHANGED bridgeVars /\ UNCHANGED confVars

\* setup returned Ok: the host enters its blocking event loop.
EventLoopStart ==
    /\ phase = "Setup"
    /\ setupPc = "done"
    /\ phase' = "Running"
    /\ UNCHANGED <<setupPc, lockHeld, APP_STATE, slotWrites, managed, navigated,
                   lastCmd>>
    /\ UNCHANGED bridgeVars /\ UNCHANGED confVars

\* Variant of EventLoopExit: a teardown that clears the Global Handle Slot.
EventLoopExit_ClearSlot ==
    /\ phase = "Running"
    /\ phase' = "Exited"
    /\ APP_STATE' = None
    /\ slotWrites' = slotWrites + 1
    /\ UNCHANGED <<setupPc, lockHeld, managed, navigated, lastCmd>>
    /\ UNCHANGED bridgeVars /\ UNCHANGED confVars

\* the event loop ends and with it the process.
EventLoopExit ==
    /\ phase = "Running"
    /\ phase' = "Exited"
    /\ UNCHANGED <<setupPc, lockHeld, APP_STATE, slotWrites, managed, navigated,
                   lastCmd>>
    /\ UNCHANGED bridgeVars /\ UNCHANGED confVars

---------------------------------------------------------------------------
(* The Command Surface: main.rs:17-39, lib.rs:49-73.  Each operator gives
   the command's return value or, for a setter, the AppState it leaves. *)

get_web_url(state) == state.web_url

\* println!("... {}", url): the record is not touched.
set_web_url(url, state) == state

is_desktop_mode(state) == state.desktop_mode

\* println!("... {}", enabled): the record is not touched.
set_desktop_mode(enabled, state) == state

Cmd_get_web_url ==
    /\ phase = "Running"
    /\ lastCmd' = [NoCmd EXCEPT !.op = "get_web_url", !.prev = lastCmd.op,
                                !.sret = get_web_url(managed[1])]
    /\ UNCHANGED <<phase, setupPc, lockHeld, APP_STATE, slotWrites, managed,
                   navigated>>
    /\ UNCHANGED bridgeVars /\ UNCHANGED confVars

Cmd_set_web_url ==
    /\ phase = "Running"
    /\ \E url \in ArgStrings :
          /\ managed' = <<set_web_url(url, managed[1])>>
          /\ lastCmd' = [NoCmd EXCEPT !.op = "set_web_url", !.prev = lastCmd.op,
                                      !.sarg = url]
    /\ UNCHANGED <<phase, setupPc, lockHeld, APP_STATE, slotWrites, navigated>>
    /\ UNCHANGED bridgeVars /\ UNCHANGED confVars

Cmd_is_desktop_mode ==
    /\ phase = "Running"
    /\ lastCmd' = [NoCmd EXCEPT !.op = "is_desktop_mode", !.prev = lastCmd.op,
                                !.bret = is_desktop_mode(managed[1])]
    /\ UNCHANGED <<phase, setupPc, lockHeld, APP_STATE, slotWrites, managed,
                   navigated>>
    /\ UNCHANGED bridgeVars /\ UNCHANGED confVars

Cmd_set_desktop_mode ==
    /\ phase = "Running"
    /\ \E enabled \in BOOLEAN :
          /\ managed' = <<set_desktop_mode(enabled, managed[1])>>
          /\ lastCmd' = [NoCmd EXCEPT !.op = "set_desktop_mode",
                                      !.prev = lastCmd.op, !.barg = enabled]
    /\ UNCHANGED <<phase, setupPc, lockHeld, APP_STATE, slotWrites, navigated>>
    /\ UNCHANGED bridgeVars /\ UNCHANGED confVars

---------------------------------------------------------------------------
(* The External Bridge: ext_mod::run_app, lib.rs:112-131 *)

\* lib.rs:113-118: println!, let _builder = create_tauri_builder(),
\* let _context = tauri_generate_context().
run_app_Call ==
    /\ entry = "ext_mod"
    /\ runPc \in {"idle", "returned"}
    /\ calls < MaxCalls
    /\ \E web_url \in ArgStrings : runArg' = web_url
    /\ runBuilder' = <<AppStateDefault>>
    /\ runPc' = "built"
    /\ worker' = NoWorker
    /\ spawned' = 0
    /\ runResult' = NoResult
    /\ calls' = calls + 1
    /\ UNCHANGED hostVars /\ UNCHANGED confVars

\* lib.rs:122  std::thread::spawn(move || { .. })
run_app_Spawn ==
    /\ runPc = "built"
    /\ worker' = [st |-> "running", code |-> 0]
    /\ spawned' = spawned + 1
    /\ runPc' = "joining"
    /\ UNCHANGED <<runArg, runBuilder, runResult, calls>>
    /\ UNCHANGED hostVars /\ UNCHANGED confVars

\* lib.rs:123-126: the closure prints and evaluates to 0; println! panics
\* when the write to stdout fails.
Worker_Run ==
    /\ worker.st = "running"
    /\ \/ worker' = [st |-> "done", code |-> 0]
       \/ worker' = [st |-> "panicked", code |-> 0]
    /\ UNCHANGED <<runPc, runArg, runBuilder, spawned, runResult, calls>>
    /\ UNCHANGED hostVars /\ UNCHANGED confVars

\* Variant of run_app_Join: Err(e) is propagated to the caller.
run_app_Join_Propagate ==
    /\ runPc = "joining"
    /\ worker.st \in {"done", "panicked"}
    /\ runResult' = IF worker.st = "done"
                    THEN [kind |-> "Ok", code |-> worker.code]
                    ELSE [kind |-> "Err", code |-> 0]
    /\ runBuilder' = <<>>
    /\ runPc' = "returned"
    /\ UNCHANGED <<runArg, worker, spawned, calls>>
    /\ UNCHANGED hostVars /\ UNCHANGED confVars

\* Variant of run_app_Join: the JoinHandle is dropped (fire and forget) and
\* run_app returns 0 at once.
run_app_Join_Detached ==
    /\ runPc = "joining"
    /\ runResult' = [kind |-> "Ok", code |-> 0]
    /\ runBuilder' = <<>>
    /\ runPc' = "returned"
    /\ UNCHANGED <<runArg, worker, spawned, calls>>
    /\ UNCHANGED hostVars /\ UNCHANGED confVars

\* lib.rs:127-130: .join() blocks until the worker has finished;
\* Ok(code) => Ok(code), Err(_) => Ok(1).  _builder is dropped on return.
run_app_Join ==
    /\ runPc = "joining"
    /\ worker.st \in {"done", "panicked"}
    /\ runResult' = IF worker.st = "done"
                    THEN [kind |-> "Ok", code |-> worker.code]
                    ELSE [kind |-> "Ok", code |-> 1]
    /\ runBuilder' = <<>>
    /\ runPc' = "returned"
    /\ UNCHANGED <<runArg, worker, spawned, calls>>
    /\ UNCHANGED hostVars /\ UNCHANGED confVars

---------------------------------------------------------------------------
SetupStep ==
    \/ Setup_Lock
    \/ Setup_Store
    \/ Setup_Unlock
    \/ Main_Setup_ReadEnv
    \/ Main_Setup_GetWindow
    \/ Main_Setup_Navigate
    \/ Lib_Setup_State
    \/ Setup_Ok

Command ==
    \/ Cmd_get_web_url
    \/ Cmd_set_web_url
    \/ Cmd_is_desktop_mode
    \/ Cmd_set_desktop_mode

BridgeStep ==
    \/ run_app_Spawn
    \/ Worker_Run
    \/ run_app_Join

Next ==
    \/ Main_Build
    \/ Lib_Build
    \/ HostRun
    \/ HostInitFail
    \/ SetupStep
    \/ EventLoopStart
    \/ Command
    \/ EventLoopExit
    \/ run_app_Call
    \/ BridgeStep

Spec == Init /\ [][Next]_vars

\* Threads that can run are eventually scheduled: the setup closure and the
\* start of the event loop on the host's thread, the worker and the joining
\* caller in run_app.
FairSpec ==
    /\ Spec
    /\ WF_vars(SetupStep)
    /\ WF_vars(EventLoopStart)
    /\ WF_vars(BridgeStep)

---------------------------------------------------------------------------
(* Properties *)

InvalidUrlSet == env # <<>> /\ ~ParseUrl(env[1]).ok

\* C1: is_desktop_mode() invoked directly after set_desktop_mode(b) returns b.
C1_SetThenIsDesktopMode ==
    [][(lastCmd.op = "set_desktop_mode" /\ lastCmd'.op = "is_desktop_mode")
         => lastCmd'.bret = lastCmd.barg]_vars

\* C2: get_web_url() invoked directly after set_web_url(s) returns exactly s.
C2_SetThenGetWebUrl ==
    [][(lastCmd.op = "set_web_url" /\ lastCmd'.op = "get_web_url")
         => lastCmd'.sret = lastCmd.sarg]_vars

\* C3: with MCP_WEB_URL set to a value that does not parse as a URL, the
\* standalone setup does not crash and attempts no navigation.
C3_InvalidUrlNoCrash ==
    (entry = "main" /\ InvalidUrlSet)
        => (setupPc # "panicked" /\ navigated = <<>>)

\* C4: a run_app call that has returned returned Ok(0) or Ok(1), never an
\* error: 0 exactly when its worker completed normally, 1 exactly when its
\* worker panicked.
C4_RunAppResult ==
    runPc = "returned" =>
        /\ runResult.kind = "Ok"
        /\ runResult.code \in {0, 1}
        /\ (runResult.code = 0 <=> worker.st = "done")
        /\ (runResult.code = 1 <=> worker.st = "panicked")

C4_Witness ==
    /\ runPc = "returned"
    /\ worker.st = "panicked"
    /\ runResult = [kind |-> "Ok", code |-> 1]
    /\ runArg # <<>>

\* C5: on a freshly constructed State Record (no command before),
\* get_web_url() returns the empty string and is_desktop_mode() returns
\* false, whichever entry point constructed the record.
C5_FreshDefaults ==
    /\ (lastCmd.prev = "none" /\ lastCmd.op = "get_web_url")
          => lastCmd.sret = <<>>
    /\ (lastCmd.prev = "none" /\ lastCmd.op = "is_desktop_mode")
          => lastCmd.bret = FALSE
    /\ (managed # <<>> /\ lastCmd.op = "none")
          => (get_web_url(managed[1]) = <<>> /\ ~is_desktop_mode(managed[1]))
    /\ runBuilder # <<>>
          => (get_web_url(runBuilder[1]) = <<>> /\ ~is_desktop_mode(runBuilder[1]))

C5_Witness ==
    /\ entry = "builder"
    /\ lastCmd.prev = "none"
    /\ lastCmd.op = "is_desktop_mode"
    /\ lastCmd.bret = FALSE

\* C6: with MCP_WEB_URL unset the standalone setup never reaches the
\* navigation code, never panics, and once setup has started the
\* application reaches Running.
C6_UnsetEnvNoNavigation ==
    /\ []((entry = "main" /\ env = <<>>)
            => /\ navigated = <<>>
               /\ setupPc \notin {"haveUrl", "window", "panicked"}
               /\ (phase = "Aborted" => setupPc = "idle"))
    /\ ((entry = "main" /\ env = <<>> /\ phase = "Setup") ~> phase = "Running")

C6_Witness ==
    /\ entry = "main"
    /\ env = <<>>
    /\ phase = "Running"
    /\ setupPc = "done"
    /\ navigated = <<>>

\* C7: the bridge triggers the same bootstrap as main: the library setup
\* stores the handle and navigates the main window to a launch URL that is
\* present, and a returned run_app has brought the application to Running.
C7_BridgeSameBootstrap ==
    /\ (entry = "ext_mod" /\ runPc = "returned")
          => (phase = "Running" /\ APP_STATE = Handle)
    /\ (entry = "builder" /\ setupPc = "done" /\ mainWindow
          /\ env # <<>> /\ ParseUrl(env[1]).ok)
          => (APP_STATE = Handle /\ navigated = <<ParseUrl(env[1]).url>>)

\* C8: the Global Handle Slot is None until setup stores the handle, it is
\* assigned once, by setup with the lock held, and no later step assigns or
\* clears it; an application that runs has had it assigned exactly once.
C8_SlotWrittenOnce ==
    /\ [](/\ slotWrites <= 1
          /\ (slotWrites = 0 <=> APP_STATE = None)
          /\ (phase \in {"Uninitialized", "Building"} => APP_STATE = None)
          /\ (setupPc \in {"idle", "start", "locked"} => APP_STATE = None)
          /\ (phase \in {"Running", "Exited"}
                => (APP_STATE = Handle /\ slotWrites = 1)))
    /\ [][(APP_STATE' # APP_STATE \/ slotWrites' # slotWrites)
            => /\ phase = "Setup" /\ phase' = "Setup"
               /\ setupPc = "locked"
               /\ lockHeld /\ lockHeld'
               /\ APP_STATE = None /\ APP_STATE' = Handle]_vars

C8_Witness ==
    /\ phase = "Exited"
    /\ lastCmd.op = "set_web_url"
    /\ navigated # <<>>
    /\ APP_STATE = Handle
    /\ slotWrites = 1

PhaseOrder ==
    {<<"Uninitialized", "Building">>, <<"Building", "Setup">>,
     <<"Setup", "Running">>, <<"Running", "Exited">>}

\* C9: the standalone bootstrap changes phase only along Uninitialized,
\* Building, Setup, Running, Exited, or aborts before Running; in setup the
\* lock is taken, the handle stored and the lock released before the
\* environment is read and before any navigation; the event loop starts
\* only after setup returned; a setup that panicked aborts the process,
\* which then never runs.
C9_BootstrapOrder ==
    /\ []((entry = "main")
            => /\ (phase = "Running" => setupPc = "done")
               /\ (setupPc = "panicked" => phase = "Aborted")
               /\ (setupPc \in {"haveUrl", "window", "finish", "done", "panicked"}
                     => (~lockHeld /\ APP_STATE = Handle))
               /\ (navigated # <<>> => (~lockHeld /\ APP_STATE = Handle)))
    /\ [][(entry = "main")
            => /\ (phase' # phase
                     => \/ <<phase, phase'>> \in PhaseOrder
                        \/ (phase \in {"Building", "Setup"} /\ phase' = "Aborted"))
               /\ ((setupPc = "unlocked" /\ setupPc' # "unlocked")
                     => (~lockHeld /\ APP_STATE = Handle))
               /\ (navigated' # navigated
                     => (~lockHeld /\ APP_STATE = Handle))
               /\ ((phase = "Setup" /\ phase' = "Running")
                     => setupPc = "done")]_vars

C9_Witness ==
    /\ entry = "main"
    /\ phase = "Exited"
    /\ setupPc = "done"
    /\ navigated # <<>>

\* C10: a run_app call spawns exactly one worker thread, has not returned
\* while that worker is still running, and eventually returns.
C10_RunAppJoins ==
    /\ [](/\ spawned <= 1
          /\ (worker.st = "running" => (runPc = "joining" /\ spawned = 1))
          /\ (runPc = "returned"
                => (spawned = 1 /\ worker.st \in {"done", "panicked"})))
    /\ (runPc = "built" ~> runPc = "returned")

C10_Witness ==
    /\ runPc = "returned"
    /\ calls >= 2
    /\ spawned = 1
    /\ worker.st = "done"
=============================================================================
